---- MODULE Spec2Model ----
(***************************************************************************)
(* Model of src/pg.rs: InstrumentedPgConnection, a PgConnection wrapped    *)
(* with tracing spans.  The driver (PgConnection), the backend and the     *)
(* tracing collector are the environment: the driver's results are chosen  *)
(* nondeterministically, every call that reaches the driver is appended to *)
(* innerLog, every closed span is appended to spans.                       *)
(***************************************************************************)
EXTENDS Integers, Sequences, FiniteSets, TLC

\* Bounds of the model.
MaxCalls == 3   \* calls made by the application in one behaviour

VARIABLES
    pc,          \* position inside establish: idle, connecting, querying, recording
    est,         \* the establish call in flight: its argument, span, locals
    conn,        \* the InstrumentedPgConnection the caller holds (inner + info)
    liveInner,   \* number of open PgConnection handles
    builder,     \* "none" or "bound": a TransactionBuilder borrowed from conn
    builderStmts,\* statements run through builders so far
    spans,       \* closed spans, in the order the collector received them
    innerLog,    \* calls received by the driver, with the result it gave
    facadeLog,   \* calls made on the facade, with the result the caller got
    estLog       \* finished establish calls, with the result the caller got

vars == <<pc, est, conn, liveInner, builder, builderStmts, spans, innerLog,
          facadeLog, estLog>>

----------------------------------------------------------------------------
\* Values.

Last(s) == s[Len(s)]

\* tracing field values: unset, a &str, a Display-formatted value, an integer.
Empty == [ty |-> "empty", s |-> "", n |-> 0]
Str(s) == [ty |-> "str", s |-> s, n |-> 0]
Disp(s) == [ty |-> "display", s |-> s, n |-> 0]
I64(n) == [ty |-> "i64", s |-> "", n |-> n]

AttrKeys == {"db.name", "db.system", "db.version", "otel.kind",
             "net.peer.ip", "net.peer.port"}
MetaKeys == {"db.name", "db.version", "net.peer.ip", "net.peer.port"}

\* Display of the three field types of PgConnectionInfo.
DisplayString(s) == s
DisplayI32(n) == ToString(n)
DisplayIpNetwork(a) == a.addr \o "/" \o ToString(a.prefix)

\* Errors: diesel::result::Error and ConnectionError, as kind + wrapped cause.
NoErr == [kind |-> "", cause |-> ""]
QueryErrors == {[kind |-> "DatabaseError", cause |-> ""],
                [kind |-> "NotFound", cause |-> ""]}
DriverErrors == {[kind |-> "BadConnection", cause |-> ""],
                 [kind |-> "CouldntSetupConfiguration", cause |-> "DatabaseError"]}

Ok(v) == [ok |-> TRUE, val |-> v, err |-> NoErr]
Err(e) == [ok |-> FALSE, val |-> 0, err |-> e]

\* What the backend may answer to the introspection query, in select order:
\* current_database, inet_server_addr, inet_server_port, version.
BackendRows == {<<"orders_db", [addr |-> "10.0.0.5", prefix |-> 32], 5432, "14.2">>,
                <<"test", [addr |-> "::1", prefix |-> 128], 5433, "12.9">>}
NoRow == <<"", [addr |-> "", prefix |-> 0], 0, "">>

Urls == {"postgres://db/orders"}
Queries == {"q1", "q2"}
Counts == {0, 2}

\* Queryable: the row's columns fill the struct's fields by position.
FromRowSwapped(row) ==
    [current_database |-> row[4], inet_server_addr |-> row[2],
     inet_server_port |-> row[3], version |-> row[1]]
FromRow(row) ==
    [current_database |-> row[1], inet_server_addr |-> row[2],
     inet_server_port |-> row[3], version |-> row[4]]

NoInfo == [current_database |-> "", inet_server_addr |-> [addr |-> "", prefix |-> 0],
           inet_server_port |-> 0, version |-> ""]
NoConn == [live |-> FALSE, id |-> 0, info |-> NoInfo]

----------------------------------------------------------------------------
\* Spans.

\* fields(...) of establish: the four metadata fields are field::Empty.
EstablishFields ==
    [k \in AttrKeys |->
        IF k = "db.system" THEN Str("postgresql")
        ELSE IF k = "otel.kind" THEN Str("client")
        ELSE Empty]

\* The four span.record calls of establish.
RecordedFieldsNoVersion(attrs, info) ==
    [attrs EXCEPT !["db.name"] = Str(info.current_database),
                  !["net.peer.ip"] = Str(DisplayIpNetwork(info.inet_server_addr)),
                  !["net.peer.port"] = I64(info.inet_server_port)]
RecordedFields(attrs, info) ==
    [attrs EXCEPT !["db.name"] = Str(info.current_database),
                  !["db.version"] = Str(info.version),
                  !["net.peer.ip"] = Str(DisplayIpNetwork(info.inet_server_addr)),
                  !["net.peer.port"] = I64(info.inet_server_port)]

\* fields(...) of every other instrumented method, read from self.info.
SpanFieldsNoPort(info) ==
    [k \in AttrKeys |->
        IF k = "db.name" THEN Disp(DisplayString(info.current_database))
        ELSE IF k = "db.system" THEN Str("postgresql")
        ELSE IF k = "db.version" THEN Disp(DisplayString(info.version))
        ELSE IF k = "otel.kind" THEN Str("client")
        ELSE IF k = "net.peer.ip" THEN Disp(DisplayIpNetwork(info.inet_server_addr))
        ELSE Empty]
SpanFields(info) ==
    [k \in AttrKeys |->
        IF k = "db.name" THEN Disp(DisplayString(info.current_database))
        ELSE IF k = "db.system" THEN Str("postgresql")
        ELSE IF k = "db.version" THEN Disp(DisplayString(info.version))
        ELSE IF k = "otel.kind" THEN Str("client")
        ELSE IF k = "net.peer.ip" THEN Disp(DisplayIpNetwork(info.inet_server_addr))
        ELSE Disp(DisplayI32(info.inet_server_port))]

OpenSpan(name, inst, attrs) ==
    [name |-> name, inst |-> inst, attrs |-> attrs, failed |-> FALSE, err |-> NoErr]

\* On return: with `err`, an Err result is recorded on the span.
CloseSpan(span, recordsErr, ret) ==
    IF recordsErr /\ ~ret.ok
    THEN [span EXCEPT !.failed = TRUE, !.err = ret.err]
    ELSE span

----------------------------------------------------------------------------
\* The facade's methods.

SpanWrappedOps == {"batch_execute", "execute", "execute_returning_count", "load"}
FacadeOps == SpanWrappedOps \cup {"transaction_state", "build_transaction", "ping"}

\* Which methods carry #[instrument].
InstrumentedAll(op) == TRUE
Instrumented(op) == op # "ping"

\* Which #[instrument] attributes carry `err`.
RecordsErrNever(op) == FALSE
RecordsErr(op) == op \in SpanWrappedOps

\* How many times a method calls the same method of self.inner.
InnerCallsRetry(op) == IF op = "execute" THEN 2 ELSE 1
InnerCalls(op) == 1

\* What a method returns, given what self.inner returned.
FacadeResult(op, r) ==
    IF op = "batch_execute"
    THEN (IF r.ok THEN Ok(0) ELSE Err(r.err))
    ELSE r

\* What self.inner may return.
InnerResults(op) ==
    CASE op = "batch_execute" -> {Ok(0)} \cup {Err(e) : e \in QueryErrors}
      [] op = "ping" -> {Ok(0)} \cup {Err(e) : e \in QueryErrors}
      [] op = "transaction_state" -> {Ok(d) : d \in Counts}
      [] op = "build_transaction" -> {Ok(0)}
      [] OTHER -> {Ok(n) : n \in Counts} \cup {Err(e) : e \in QueryErrors}

\* Calls the application has made so far: establish, facade methods,
\* statements through a builder.
Calls ==
    Len(estLog) + (IF pc = "idle" THEN 0 ELSE 1) + Len(facadeLog) + builderStmts

CanCall ==
    /\ pc = "idle"
    /\ conn.live
    /\ builder = "none"
    /\ Calls < MaxCalls

Call(op, arg, r) ==
    LET ret == FacadeResult(op, r)
        span == OpenSpan(op, conn.id, SpanFields(conn.info))
    IN /\ innerLog' = innerLog \o
              [i \in 1..InnerCalls(op) |-> [op |-> op, arg |-> arg, res |-> r]]
       /\ facadeLog' = Append(facadeLog,
              [op |-> op, arg |-> arg, res |-> ret, inst |-> conn.id])
       /\ spans' = IF Instrumented(op)
                   THEN Append(spans, CloseSpan(span, RecordsErr(op), ret))
                   ELSE spans

batch_execute ==
    /\ CanCall
    /\ \E q \in Queries, r \in InnerResults("batch_execute") : Call("batch_execute", q, r)
    /\ UNCHANGED <<pc, est, conn, liveInner, builder, builderStmts, estLog>>

execute ==
    /\ CanCall
    /\ \E q \in Queries, r \in InnerResults("execute") : Call("execute", q, r)
    /\ UNCHANGED <<pc, est, conn, liveInner, builder, builderStmts, estLog>>

execute_returning_count ==
    /\ CanCall
    /\ \E q \in Queries, r \in InnerResults("execute_returning_count") :
           Call("execute_returning_count", q, r)
    /\ UNCHANGED <<pc, est, conn, liveInner, builder, builderStmts, estLog>>

load ==
    /\ CanCall
    /\ \E q \in Queries, r \in InnerResults("load") : Call("load", q, r)
    /\ UNCHANGED <<pc, est, conn, liveInner, builder, builderStmts, estLog>>

transaction_state ==
    /\ CanCall
    /\ \E r \in InnerResults("transaction_state") : Call("transaction_state", "", r)
    /\ UNCHANGED <<pc, est, conn, liveInner, builder, builderStmts, estLog>>

ping ==
    /\ CanCall
    /\ \E r \in InnerResults("ping") : Call("ping", "", r)
    /\ UNCHANGED <<pc, est, conn, liveInner, builder, builderStmts, estLog>>

build_transaction ==
    /\ CanCall
    /\ \E r \in InnerResults("build_transaction") : Call("build_transaction", "", r)
    /\ builder' = "bound"
    /\ UNCHANGED <<pc, est, conn, liveInner, builderStmts, estLog>>

\* The connection a TransactionBuilder returned by build_transaction runs on.
BuilderTargetFacade == "facade"
BuilderTarget == "inner"

\* A statement issued through the builder (TransactionBuilder::run).
BuilderRun ==
    /\ builder = "bound"
    /\ Calls < MaxCalls
    /\ builderStmts' = builderStmts + 1
    /\ \E q \in Queries, r \in InnerResults("batch_execute") :
          IF BuilderTarget = "inner"
          THEN /\ innerLog' = Append(innerLog,
                      [op |-> "batch_execute", arg |-> q, res |-> r])
               /\ UNCHANGED <<spans, facadeLog>>
          ELSE Call("batch_execute", q, r)
    /\ UNCHANGED <<pc, est, conn, liveInner, builder, estLog>>

\* The builder is consumed or dropped; the borrow of the facade ends.
BuilderDrop ==
    /\ builder = "bound"
    /\ builder' = "none"
    /\ UNCHANGED <<pc, est, conn, liveInner, builderStmts, spans, innerLog,
                   facadeLog, estLog>>

\* The caller drops the facade; its inner PgConnection is dropped with it.
DropConnection ==
    /\ pc = "idle"
    /\ conn.live
    /\ builder = "none"
    /\ conn' = NoConn
    /\ liveInner' = liveInner - 1
    /\ UNCHANGED <<pc, est, builder, builderStmts, spans, innerLog, facadeLog, estLog>>

----------------------------------------------------------------------------
\* establish, step by step.

NoEst == [url |-> "", span |-> OpenSpan("", 0, EstablishFields), driverOk |-> FALSE,
          row |-> NoRow, info |-> NoInfo, logStart |-> 0]

\* Introspection queries the driver received since the call began.
IntrospectionsSince(log, start) ==
    Cardinality({i \in (start + 1)..Len(log) : log[i].op = "get_result"})

Finished(e, log, ret) ==
    [url |-> e.url, driverOk |-> e.driverOk, row |-> e.row,
     queries |-> IntrospectionsSince(log, e.logStart), ret |-> ret]

\* Entry: the span is opened by #[instrument] before the body runs.
EstablishCall ==
    /\ pc = "idle"
    /\ ~conn.live
    /\ Calls < MaxCalls
    /\ \E u \in Urls :
          est' = [NoEst EXCEPT !.url = u,
                     !.span = OpenSpan("establish", Len(estLog) + 1, EstablishFields),
                     !.logStart = Len(innerLog)]
    /\ pc' = "connecting"
    /\ UNCHANGED <<conn, liveInner, builder, builderStmts, spans, innerLog,
                   facadeLog, estLog>>

\* `?` after PgConnection::establish: only Ok continues to the query.
ProceedsAlways(r) == TRUE
Proceeds(r) == r.ok

\* PgConnection::establish(database_url)?
PgEstablish ==
    /\ pc = "connecting"
    /\ \E r \in {Ok(0)} \cup {Err(e) : e \in DriverErrors} :
          /\ liveInner' = IF r.ok THEN liveInner + 1 ELSE liveInner
          /\ IF Proceeds(r)
             THEN /\ est' = [est EXCEPT !.driverOk = r.ok]
                  /\ pc' = "querying"
                  /\ UNCHANGED <<spans, estLog>>
             ELSE LET ret == Err(r.err)
                  IN /\ spans' = Append(spans, CloseSpan(est.span, TRUE, ret))
                     /\ estLog' = Append(estLog, Finished(est, innerLog, ret))
                     /\ est' = NoEst
                     /\ pc' = "idle"
    /\ UNCHANGED <<conn, builder, builderStmts, innerLog, facadeLog>>

\* .map_err(ConnectionError::CouldntSetupConfiguration)
MapErr(e) == [kind |-> "CouldntSetupConfiguration", cause |-> e.kind]

\* The local `conn` goes out of scope when `?` returns the error.
LiveAfterFailedQueryLeak(n) == n
LiveAfterFailedQuery(n) == n - 1

\* select((...)).get_result(&mut conn).map_err(...)?
GetResult ==
    /\ pc = "querying"
    /\ \/ \E row \in BackendRows :
             /\ innerLog' = Append(innerLog,
                    [op |-> "get_result", arg |-> "select_info", res |-> Ok(0)])
             /\ est' = [est EXCEPT !.row = row, !.info = FromRow(row)]
             /\ pc' = "recording"
             /\ UNCHANGED <<liveInner, spans, estLog>>
       \/ \E e \in QueryErrors :
             LET ret == Err(MapErr(e))
                 log == Append(innerLog,
                    [op |-> "get_result", arg |-> "select_info", res |-> Err(e)])
             IN /\ innerLog' = log
                /\ liveInner' = LiveAfterFailedQuery(liveInner)
                /\ spans' = Append(spans, CloseSpan(est.span, TRUE, ret))
                /\ estLog' = Append(estLog, Finished(est, log, ret))
                /\ est' = NoEst
                /\ pc' = "idle"
    /\ UNCHANGED <<conn, builder, builderStmts, facadeLog>>

\* span.record(...) x 4, then Ok(InstrumentedPgConnection { inner: conn, info })
RecordAndReturn ==
    /\ pc = "recording"
    /\ LET id == Len(estLog) + 1
           ret == Ok(id)
           span == [est.span EXCEPT !.attrs = RecordedFields(est.span.attrs, est.info)]
       IN /\ spans' = Append(spans, CloseSpan(span, TRUE, ret))
          /\ conn' = [live |-> TRUE, id |-> id, info |-> est.info]
          /\ estLog' = Append(estLog, Finished(est, innerLog, ret))
    /\ est' = NoEst
    /\ pc' = "idle"
    /\ UNCHANGED <<liveInner, builder, builderStmts, innerLog, facadeLog>>

----------------------------------------------------------------------------

Init ==
    /\ pc = "idle"
    /\ est = NoEst
    /\ conn = NoConn
    /\ liveInner = 0
    /\ builder = "none"
    /\ builderStmts = 0
    /\ spans = <<>>
    /\ innerLog = <<>>
    /\ facadeLog = <<>>
    /\ estLog = <<>>

Next ==
    \/ EstablishCall
    \/ PgEstablish
    \/ GetResult
    \/ RecordAndReturn
    \/ batch_execute
    \/ execute
    \/ execute_returning_count
    \/ load
    \/ transaction_state
    \/ ping
    \/ build_transaction
    \/ BuilderRun
    \/ BuilderDrop
    \/ DropConnection

Spec == Init /\ [][Next]_vars

----------------------------------------------------------------------------
\* Properties.

\* A step in which the caller made one call of `op` on the facade.
Called(ops) ==
    /\ Len(facadeLog') = Len(facadeLog) + 1
    /\ Last(facadeLog').op \in ops

OpSpans == {i \in DOMAIN spans : spans[i].name # "establish"}
EstSpans == {i \in DOMAIN spans : spans[i].name = "establish"}
Introspections == {i \in DOMAIN innerLog : innerLog[i].op = "get_result"}

\* C1: every call of batch_execute, execute, execute_returning_count or load
\* on the facade reaches the underlying connection as exactly one call of the
\* same operation with the same argument, after the calls made before it, and
\* the caller gets the value or error the underlying connection returned.
C1_Transparent ==
    [][Called(SpanWrappedOps) =>
          /\ Len(innerLog') = Len(innerLog) + 1
          /\ SubSeq(innerLog', 1, Len(innerLog)) = innerLog
          /\ Last(innerLog').op = Last(facadeLog').op
          /\ Last(innerLog').arg = Last(facadeLog').arg
          /\ Last(innerLog').res = Last(facadeLog').res]_vars

C1_Witness ==
    /\ Len(facadeLog) >= 2
    /\ \E i, j \in DOMAIN facadeLog :
          /\ facadeLog[i].op = "execute" /\ ~facadeLog[i].res.ok
          /\ facadeLog[j].op = "load" /\ facadeLog[j].res = Ok(2)
          /\ i < j

C3_DistinctFailureKinds ==
    \A i \in DOMAIN estLog :
        /\ (estLog[i].driverOk /\ ~estLog[i].ret.ok) =>
                estLog[i].ret.err.kind = "CouldntSetupConfiguration"
        /\ ~estLog[i].driverOk =>
                /\ ~estLog[i].ret.ok
                /\ estLog[i].ret.err.kind # "CouldntSetupConfiguration"

\* C4: an establish whose driver step failed returns an error and the driver
\* received no introspection query during it.
C4_NoIntrospectionAfterDriverFailure ==
    /\ \A i \in DOMAIN estLog :
          ~estLog[i].driverOk => (~estLog[i].ret.ok /\ estLog[i].queries = 0)
    /\ (pc \in {"querying", "recording"}) => est.driverOk

C4_Witness ==
    \E i \in DOMAIN estLog : ~estLog[i].driverOk /\ estLog[i].queries = 0

\* C5: the metadata of a live connection is the row its establish got from
\* its one introspection query, after any operations on it, and the driver
\* has received one introspection query per establish that connected, no more.
C5_MetadataWrittenOnce ==
    /\ conn.live =>
          LET a == estLog[conn.id]
          IN /\ a.ret.ok
             /\ a.queries = 1
             /\ a.row \in BackendRows
             /\ conn.info.current_database = a.row[1]
             /\ conn.info.inet_server_addr = a.row[2]
             /\ conn.info.inet_server_port = a.row[3]
             /\ conn.info.version = a.row[4]
    /\ Cardinality(Introspections) =
          Cardinality({i \in DOMAIN estLog : estLog[i].driverOk})
             + (IF pc = "recording" THEN 1 ELSE 0)

C5_Witness ==
    /\ conn.live
    /\ conn.info.current_database = "orders_db"
    /\ Len(facadeLog) >= 2
    /\ \E i, j \in DOMAIN facadeLog :
          /\ facadeLog[i].inst = conn.id /\ ~facadeLog[i].res.ok
          /\ facadeLog[j].inst = conn.id /\ facadeLog[j].res.ok
          /\ facadeLog[j].op = "transaction_state"

\* C6: a call of a span-wrapped operation emits exactly one span; if the
\* underlying call failed the caller gets that error and the span is marked
\* failed with it; if it succeeded the caller gets the underlying result and
\* the span is not marked failed.
C6_ErrorRecordedAndPropagated ==
    [][Called(SpanWrappedOps) =>
          /\ Len(spans') = Len(spans) + 1
          /\ SubSeq(spans', 1, Len(spans)) = spans
          /\ Last(spans').name = Last(facadeLog').op
          /\ Last(facadeLog').res = Last(innerLog').res
          /\ Last(spans').failed = ~Last(innerLog').res.ok
          /\ Last(spans').err = Last(innerLog').res.err]_vars

C6_Witness ==
    \E i, j \in DOMAIN spans :
        /\ spans[i].name = "execute" /\ spans[i].failed
        /\ spans[i].err.kind = "DatabaseError"
        /\ spans[j].name = "batch_execute" /\ ~spans[j].failed
        /\ \E k \in DOMAIN facadeLog :
              facadeLog[k].op = "execute" /\ facadeLog[k].res.err.kind = "DatabaseError"

\* C7: every span other than establish's carries the six attributes, the two
\* constants and the four metadata values of its connection's bootstrap row
\* (Display-formatted), whatever happened before it.
C7_AttributesComplete ==
    \A i \in OpSpans :
        LET a == spans[i].attrs
            row == estLog[spans[i].inst].row
        IN /\ DOMAIN a = AttrKeys
           /\ \A k \in AttrKeys : a[k] # Empty
           /\ a["db.system"] = Str("postgresql")
           /\ a["otel.kind"] = Str("client")
           /\ a["db.name"] = Disp(row[1])
           /\ a["db.version"] = Disp(row[4])
           /\ a["net.peer.ip"] = Disp(row[2].addr \o "/" \o ToString(row[2].prefix))
           /\ a["net.peer.port"] = Disp(ToString(row[3]))

C7_Witness ==
    \E i, j \in OpSpans :
        /\ i < j
        /\ spans[i].failed
        /\ spans[j].name = "build_transaction"
        /\ spans[j].attrs["net.peer.port"] = Disp("5432")
        /\ spans[j].attrs["net.peer.ip"] = Disp("10.0.0.5/32")

\* C8: when no establish is in flight the number of open underlying
\* connections is the number of live facade instances, and no instance
\* exists for an establish that returned an error.
C8_NoLeak ==
    pc = "idle" =>
        /\ liveInner = (IF conn.live THEN 1 ELSE 0)
        /\ \A i \in DOMAIN estLog : ~estLog[i].ret.ok => conn.id # i

C8_Witness ==
    /\ pc = "idle"
    /\ \E i \in DOMAIN estLog : estLog[i].driverOk /\ ~estLog[i].ret.ok
    /\ \E i \in DOMAIN estLog : ~estLog[i].driverOk

\* C9: build_transaction emits exactly one span of its own, and a statement
\* run through the builder it returned reaches the underlying connection
\* without any span being emitted and without passing through the facade.
C9_BuilderBypassesFacade ==
    [][/\ Called({"build_transaction"}) =>
             /\ Len(spans') = Len(spans) + 1
             /\ Last(spans').name = "build_transaction"
             /\ builder' = "bound"
       /\ builderStmts' # builderStmts =>
             /\ spans' = spans
             /\ facadeLog' = facadeLog
             /\ Len(innerLog') = Len(innerLog) + 1]_vars

C9_Witness ==
    /\ builderStmts >= 1
    /\ Cardinality({i \in DOMAIN spans : spans[i].name = "build_transaction"}) = 1
    /\ \E i \in DOMAIN innerLog : innerLog[i].op = "batch_execute"
    /\ \A i \in DOMAIN facadeLog : facadeLog[i].op # "batch_execute"

\* C10: while establish runs its span has the four metadata attributes
\* unset and is not yet closed; a span of a failed establish closes with them
\* unset and marked failed with the returned error; a span of a successful
\* establish closes with the values of the row, which are the values stored
\* in the returned connection.
C10_EstablishSpan ==
    /\ pc # "idle" =>
          /\ est.span.name = "establish"
          /\ \A k \in MetaKeys : est.span.attrs[k] = Empty
          /\ est.span.attrs["db.system"] = Str("postgresql")
          /\ est.span.attrs["otel.kind"] = Str("client")
          /\ \A i \in EstSpans : spans[i].inst # est.span.inst
    /\ pc = "connecting" => (liveInner = 0 /\ est.logStart = Len(innerLog))
    /\ \A i \in EstSpans :
          LET s == spans[i]
              a == estLog[s.inst]
          IN IF a.ret.ok
             THEN /\ ~s.failed
                  /\ s.attrs["db.name"] = Str(a.row[1])
                  /\ s.attrs["db.version"] = Str(a.row[4])
                  /\ s.attrs["net.peer.ip"] =
                        Str(a.row[2].addr \o "/" \o ToString(a.row[2].prefix))
                  /\ s.attrs["net.peer.port"] = I64(a.row[3])
                  /\ (conn.live /\ conn.id = s.inst) =>
                        /\ s.attrs["db.name"].s = conn.info.current_database
                        /\ s.attrs["db.version"].s = conn.info.version
                        /\ s.attrs["net.peer.port"].n = conn.info.inet_server_port
             ELSE /\ s.failed
                  /\ s.err = a.ret.err
                  /\ \A k \in MetaKeys : s.attrs[k] = Empty

C10_Witness ==
    /\ \E i \in EstSpans : spans[i].failed /\ spans[i].err.kind = "BadConnection"
    /\ \E i \in EstSpans :
          /\ ~spans[i].failed
          /\ spans[i].attrs["db.name"] = Str("test")
          /\ spans[i].attrs["net.peer.port"] = I64(5433)
    /\ conn.live

====
